---- MODULE Spec2Model ----
(***************************************************************************)
(* timespy: the temporal-slicing frame processor (FrameProcessor), the     *)
(* bank of 30 canvases it fills (CanvasManager), the ping-pong renderer    *)
(* that shows them (AnimationRenderer) and the part of the camera and of   *)
(* the entry module that feeds them.                                       *)
(*                                                                         *)
(* Everything runs on one JavaScript event loop.  processFrame is declared *)
(* async but its body holds no await, so one call runs from entry to its   *)
(* finally block without any other callback in between: it is one action.  *)
(* The same holds for setDimensions, cleanup and a timer tick.             *)
(***************************************************************************)
EXTENDS Integers, Sequences, FiniteSets, TLC

(* ------------------------------ bounds -------------------------------- *)
\* frame heights the camera may deliver are 1..MaxHeight
MaxHeight == 2
\* AnimationRenderer objects ever created (one per setDimensions call)
MaxRenderers == 2
\* frames handed to processFrame beyond the height of the current camera
ExtraFrames == 1
\* frames in which some drawImage call throws
MaxFailedFrames == 1
\* direct writeFrameRow calls that write one row of one bank
MaxRowWrites == 1
\* timer ticks followed for the renderer in use when no frame is sliced
MaxTicks == 60
\* timer ticks followed for a renderer otherwise
FewTicks == 1
\* frame heights 1..MaxSourceHeight for the source row computation alone
MaxSourceHeight == 100
\* frames read from the reader by one generator
MaxFramesRead == 120

(* ------------------------- program constants -------------------------- *)
CanvasCount == 30
SliceCount == 30
LastFrameIndex == 29
DefaultFrameRate == 30
DefaultVideoWidth == 640
DefaultVideoHeight == 480
\* significant bits of a JavaScript Number (IEEE 754 binary64)
MantissaBits == 53
MillisPerSecond == 1000
MinFrameRate == 1
MaxFrameRate == 60
AssumedInputFPS == 30
TargetFPS == 24

Heights == 1..MaxHeight
\* the frame heights of the fill followed to its end
LiveHeights == 1..(MaxHeight + 1)
\* the one frame width followed (no operation modelled branches on the width)
Widths == {2}
\* the single frame height of the tall run: the least height at which the
\* Number arithmetic of the source row differs from the exact quotient
TallHeights == {75}

(* ------------------- JavaScript Number arithmetic --------------------- *)
(* Naturals beyond 31 bits are sequences of base-2^14 limbs, most          *)
(* significant first; a double is m * 2^e with m such a natural.           *)
Limb == 2 ^ 14

RECURSIVE SmallBitLen(_)
SmallBitLen(v) == IF v = 0 THEN 0 ELSE 1 + SmallBitLen(v \div 2)

LimbBits == SmallBitLen(Limb) - 1

Front(s) == SubSeq(s, 1, Len(s) - 1)

RECURSIVE Strip(_)
Strip(n) == IF n # <<>> /\ n[1] = 0 THEN Strip(Tail(n)) ELSE n

BitLen(n) ==
    LET s == Strip(n)
    IN IF s = <<>> THEN 0 ELSE LimbBits * (Len(s) - 1) + SmallBitLen(s[1])

\* n * h + c for a small h
RECURSIVE MulSmall(_, _, _)
MulSmall(n, h, c) ==
    IF n = <<>>
    THEN (IF c = 0 THEN <<>> ELSE MulSmall(<<>>, h, c \div Limb) \o <<c % Limb>>)
    ELSE LET t == n[Len(n)] * h + c
         IN MulSmall(Front(n), h, t \div Limb) \o <<t % Limb>>

\* quotient and remainder of (r * Limb^Len(n) + n) by a small d, for r < d
RECURSIVE DivSmall(_, _, _)
DivSmall(n, d, r) ==
    IF n = <<>> THEN [q |-> <<>>, r |-> r]
    ELSE LET cur == r * Limb + n[1]
             rest == DivSmall(Tail(n), d, cur % d)
         IN [q |-> <<cur \div d>> \o rest.q, r |-> rest.r]

RECURSIVE ToInt(_)
ToInt(n) == IF n = <<>> THEN 0 ELSE ToInt(Front(n)) * Limb + n[Len(n)]

\* n with its t lowest bits dropped; half: the highest dropped bit; sticky:
\* whether any lower dropped bit is set
ShiftRight(n, t) ==
    LET whole == t \div LimbBits
        bits == t % LimbBits
        kept == SubSeq(n, 1, Len(n) - whole)
        gone == SubSeq(n, Len(n) - whole + 1, Len(n))
        low == IF kept = <<>> THEN 0 ELSE kept[Len(kept)] % (2 ^ bits)
        q == [i \in 1..Len(kept) |->
                 (IF i = 1 THEN 0
                  ELSE (kept[i - 1] % (2 ^ bits)) * 2 ^ (LimbBits - bits))
                 + kept[i] \div (2 ^ bits)]
        goneNonZero == \E i \in 1..Len(gone) : gone[i] # 0
    IN IF t = 0 THEN [q |-> n, half |-> 0, sticky |-> FALSE]
       ELSE IF bits = 0
       THEN [q |-> kept, half |-> gone[1] \div 2 ^ (LimbBits - 1),
             sticky |-> gone[1] % 2 ^ (LimbBits - 1) # 0
                        \/ \E i \in 2..Len(gone) : gone[i] # 0]
       ELSE [q |-> q, half |-> low \div 2 ^ (bits - 1),
             sticky |-> low % 2 ^ (bits - 1) # 0 \/ goneNonZero]

\* IEEE 754 round-to-nearest, ties-to-even, of n * 2^e given the dropped part
RoundNearestEven(n, e, half, sticky) ==
    IF half = 1 /\ (sticky \/ n[Len(n)] % 2 = 1)
    THEN [m |-> MulSmall(n, 1, 1), e |-> e]
    ELSE [m |-> n, e |-> e]

\* the double nearest n * 2^e (n > 0): its 53 leading bits, rounded
ToDouble(n, e, inexact) ==
    LET t == BitLen(n) - MantissaBits
        s == ShiftRight(Strip(n), t)
    IN IF t <= 0 THEN [m |-> Strip(n), e |-> e]
       ELSE RoundNearestEven(s.q, e + t, s.half, s.sticky \/ inexact)

\* the Number k / d of two small integers 0 < k < d; the quotient is taken to
\* 5 limbs (70 bits), more than the 53 kept after its leading zeros
DblDiv(k, d) ==
    LET dv == DivSmall([i \in 1..5 |-> 0], d, k)
    IN ToDouble(dv.q, 0 - 5 * LimbBits, dv.r # 0)

\* the Number x * h of a double x > 0 and a small integer h > 0
DblMul(x, h) == ToDouble(MulSmall(x.m, h, 0), x.e, FALSE)

\* Math.floor of a double 0 <= x < 2^31
DblFloor(x) ==
    IF x.e >= 0 THEN ToInt(x.m) * 2 ^ x.e
    ELSE ToInt(Strip(ShiftRight(x.m, 0 - x.e).q))

(* --------------------------- the state -------------------------------- *)
VARIABLES
    \* FrameProcessor
    frameProcessingCount, isProcessing, currentTargetRow, isComplete,
    cameraManager,      \* TRUE when setCameraManager has given a camera manager
    animationRenderer,  \* index into renderers of the renderer in use, 0: null
    \* CanvasManager
    canvases,           \* 0..29 -> surface, or <<>> when there are none
    width, height, isInitialized, currentlyVisibleIndex,
    attached,           \* the canvases that are children of the #app element
    \* every AnimationRenderer ever constructed, in order of construction; a
    \* renderer that is no longer referenced stays here while its timer runs
    renderers,
    \* CameraManager: reader and stream are TRUE while the field holds an
    \* object, FALSE while it is null
    videoWidth, videoHeight, isStreaming, reader, stream,
    \* where the generator made by the last getFrameStream call is: "none"
    \* before any call, "reading" while it awaits reader.read(), "done" once
    \* it has returned
    generator,
    \* the camera the manager asks for: "user", "environment", or "unknown"
    \* when the device does not report which camera a fallback stream is from
    currentFacingMode,
    \* the frame last handed to processFrame: its ordinal among the frames
    \* handed over since the bank was initialized, its displayHeight, how often
    \* close() was called on it and by which path processFrame left
    frame,
    \* history: frames handed to processFrame since the last setDimensions;
    \* whether the processor was as constructed at that setDimensions; frames
    \* in which a drawImage threw, since construction
    fed, freshAtInit, failedFrames,
    \* the CanvasManager or AnimationRenderer method last called from outside
    \* the processor, with its arguments, what it returned, what the bank
    \* was like before it and which method was called before it
    call

fpVars == <<frameProcessingCount, isProcessing, currentTargetRow, isComplete,
            cameraManager, animationRenderer>>
cmVars == <<canvases, width, height, isInitialized, currentlyVisibleIndex,
           attached>>
camVars == <<videoWidth, videoHeight, isStreaming, reader, stream,
             generator, currentFacingMode>>
histVars == <<frame, fed, freshAtInit, failedFrames, call>>
vars == <<fpVars, cmVars, renderers, camVars, histVars>>

NoFrame == [no |-> 0 - 1, displayHeight |-> 0, closes |-> 0, exit |-> "none"]
BlankRow == [frame |-> 0 - 1, row |-> 0 - 1, writes |-> 0]
NoCall ==
    [op |-> "none", index |-> 0 - 1, sourceRow |-> 0 - 1, targetRow |-> 0 - 1,
     displayHeight |-> 0, width |-> 0, height |-> 0, throws |-> FALSE,
     ret |-> "none", toggles |-> 0, wasInitialized |-> FALSE,
     wasVisible |-> 0 - 1, prev |-> "none", fps |-> 0, raised |-> FALSE,
     wasComplete |-> FALSE, wasProcessing |-> FALSE, manager |-> FALSE,
     closes |-> 0, processing |-> FALSE, emitted |-> <<>>,
     was |-> "none", requested |-> "none", twoBack |-> "none",
     portrait |-> FALSE]

Init ==
    /\ frameProcessingCount = 0
    /\ isProcessing = FALSE
    /\ currentTargetRow = 0
    /\ isComplete = FALSE
    /\ cameraManager = FALSE
    /\ animationRenderer = 0
    /\ canvases = <<>>
    /\ width = 0
    /\ height = 0
    /\ isInitialized = FALSE
    /\ currentlyVisibleIndex = 0 - 1
    /\ renderers = <<>>
    /\ videoWidth = DefaultVideoWidth
    /\ videoHeight = DefaultVideoHeight
    /\ isStreaming = FALSE
    /\ reader = FALSE
    /\ stream = FALSE
    /\ generator = "none"
    /\ currentFacingMode = "user"
    /\ frame = NoFrame
    /\ fed = 0
    /\ freshAtInit = FALSE
    /\ failedFrames = 0
    /\ attached = 0
    /\ call = NoCall

(* --------------------------- CanvasManager ---------------------------- *)
CmState ==
    [canvases |-> canvases, width |-> width, height |-> height,
     isInitialized |-> isInitialized,
     currentlyVisibleIndex |-> currentlyVisibleIndex, attached |-> attached]

SetCm(cm) ==
    /\ canvases' = cm.canvases
    /\ width' = cm.width
    /\ height' = cm.height
    /\ isInitialized' = cm.isInitialized
    /\ currentlyVisibleIndex' = cm.currentlyVisibleIndex
    /\ attached' = cm.attached

\* document.createElement('canvas') of w x h, cleared, hidden and appended
\* to the #app element
NewCanvas(w, h) ==
    [width |-> w, height |-> h, display |-> "none", parentNode |-> TRUE,
     rows |-> [r \in 0..(h - 1) |-> BlankRow]]

\* the canvases of the bank that have a parent node
WithParent(cm) == {i \in DOMAIN cm.canvases : cm.canvases[i].parentNode}

\* a cleanup that forgets the canvases without removing them from the page
CanvasManagerCleanup_NoDetach(cm) ==
    [cm EXCEPT !.canvases = <<>>, !.currentlyVisibleIndex = 0 - 1,
               !.isInitialized = FALSE]

\* a cleanup that keeps the index of the canvas that was visible
CanvasManagerCleanup_KeepsVisible(cm) ==
    [cm EXCEPT !.canvases = <<>>, !.isInitialized = FALSE,
               !.attached = @ - Cardinality(WithParent(cm))]

CanvasManagerCleanup(cm) ==
    [cm EXCEPT !.canvases = <<>>, !.currentlyVisibleIndex = 0 - 1,
               !.isInitialized = FALSE,
               !.attached = @ - Cardinality(WithParent(cm))]

CanvasManagerInitialize(cm, w, h) ==
    LET cleared == CanvasManagerCleanup([cm EXCEPT !.width = w, !.height = h])
        created == [i \in 0..(CanvasCount - 1) |-> NewCanvas(w, h)]
    IN [cleared EXCEPT
          !.canvases = created,
          !.isInitialized = TRUE,
          !.attached = @ + Cardinality({i \in DOMAIN created :
                                           created[i].parentNode})]

\* whether getContext(index) returns a context rather than null
GetContext(cm, index) ==
    ~(~cm.isInitialized \/ index < 0 \/ index >= CanvasCount)

\* a writeFrameRow whose draw covers every row of the canvas
WriteFrameRow_EveryRow(cm, canvasIndex, fr, sourceRow, targetRow, throws) ==
    LET startX == 0
        copyWidth == cm.width
    IN IF ~GetContext(cm, canvasIndex) THEN [ok |-> FALSE, cm |-> cm]
       ELSE IF \/ sourceRow < 0 \/ sourceRow >= fr.displayHeight
               \/ targetRow < 0 \/ targetRow >= cm.height
               \/ startX < 0 \/ startX + copyWidth > cm.width
       THEN [ok |-> FALSE, cm |-> cm]
       ELSE IF throws THEN [ok |-> FALSE, cm |-> cm]
       ELSE [ok |-> TRUE,
             cm |-> [cm EXCEPT !.canvases[canvasIndex].rows =
                        [r \in DOMAIN @ |->
                            [frame |-> fr.no, row |-> sourceRow,
                             writes |-> @[r].writes + 1]]]]

\* a writeFrameRow that does not check sourceRow against the frame's height
WriteFrameRow_NoSourceCheck(cm, canvasIndex, fr, sourceRow, targetRow, throws) ==
    LET startX == 0
        copyWidth == cm.width
    IN IF ~GetContext(cm, canvasIndex) THEN [ok |-> FALSE, cm |-> cm]
       ELSE IF \/ sourceRow < 0
               \/ targetRow < 0 \/ targetRow >= cm.height
               \/ startX < 0 \/ startX + copyWidth > cm.width
       THEN [ok |-> FALSE, cm |-> cm]
       ELSE IF throws THEN [ok |-> FALSE, cm |-> cm]
       ELSE [ok |-> TRUE,
             cm |-> [cm EXCEPT !.canvases[canvasIndex].rows[targetRow] =
                        [frame |-> fr.no, row |-> sourceRow,
                         writes |-> @.writes + 1]]]

\* a writeFrameRow that also makes the canvas it wrote visible
WriteFrameRow_ShowsCanvas(cm, canvasIndex, fr, sourceRow, targetRow, throws) ==
    LET startX == 0
        copyWidth == cm.width
    IN IF ~GetContext(cm, canvasIndex) THEN [ok |-> FALSE, cm |-> cm]
       ELSE IF \/ sourceRow < 0 \/ sourceRow >= fr.displayHeight
               \/ targetRow < 0 \/ targetRow >= cm.height
               \/ startX < 0 \/ startX + copyWidth > cm.width
       THEN [ok |-> FALSE, cm |-> cm]
       ELSE IF throws THEN [ok |-> FALSE, cm |-> cm]
       ELSE [ok |-> TRUE,
             cm |-> [cm EXCEPT !.canvases[canvasIndex].rows[targetRow] =
                        [frame |-> fr.no, row |-> sourceRow,
                         writes |-> @.writes + 1],
                               !.canvases[canvasIndex].display = "block"]]

\* writeFrameRow(canvasIndex, frame, sourceRow, targetRow) with the default
\* startX = 0 and width = null; throws: whether ctx.drawImage throws
WriteFrameRow(cm, canvasIndex, fr, sourceRow, targetRow, throws) ==
    LET startX == 0
        copyWidth == cm.width
    IN IF ~GetContext(cm, canvasIndex) THEN [ok |-> FALSE, cm |-> cm]
       ELSE IF \/ sourceRow < 0 \/ sourceRow >= fr.displayHeight
               \/ targetRow < 0 \/ targetRow >= cm.height
               \/ startX < 0 \/ startX + copyWidth > cm.width
       THEN [ok |-> FALSE, cm |-> cm]
       ELSE IF throws THEN [ok |-> FALSE, cm |-> cm]
       ELSE [ok |-> TRUE,
             cm |-> [cm EXCEPT !.canvases[canvasIndex].rows[targetRow] =
                        [frame |-> fr.no, row |-> sourceRow,
                         writes |-> @.writes + 1]]]

\* a showCanvas that leaves the canvas shown before as it is
ShowCanvas_KeepsPrevious(cm, index) ==
    IF ~cm.isInitialized \/ index < 0 \/ index >= CanvasCount
    THEN [ok |-> FALSE, cm |-> cm, toggles |-> 0]
    ELSE IF cm.currentlyVisibleIndex = index
    THEN [ok |-> TRUE, cm |-> cm, toggles |-> 0]
    ELSE [ok |-> TRUE,
          cm |-> [cm EXCEPT !.canvases[index].display = "block",
                            !.currentlyVisibleIndex = index],
          toggles |-> 1]

\* a showCanvas that does not return early when the canvas is already shown
ShowCanvas_NoShortCut(cm, index) ==
    IF ~cm.isInitialized \/ index < 0 \/ index >= CanvasCount
    THEN [ok |-> FALSE, cm |-> cm, toggles |-> 0]
    ELSE LET hides == cm.currentlyVisibleIndex >= 0
                      /\ cm.currentlyVisibleIndex < CanvasCount
             hidden ==
                 IF hides
                 THEN [cm EXCEPT
                         !.canvases[cm.currentlyVisibleIndex].display = "none"]
                 ELSE cm
         IN [ok |-> TRUE,
             cm |-> [hidden EXCEPT !.canvases[index].display = "block",
                                   !.currentlyVisibleIndex = index],
             toggles |-> (IF hides THEN 1 ELSE 0) + 1]

\* a showCanvas that does not check the index against 0
ShowCanvas_NoLowerCheck(cm, index) ==
    IF ~cm.isInitialized \/ index >= CanvasCount
    THEN [ok |-> FALSE, cm |-> cm, toggles |-> 0]
    ELSE IF cm.currentlyVisibleIndex = index
    THEN [ok |-> TRUE, cm |-> cm, toggles |-> 0]
    ELSE LET hides == cm.currentlyVisibleIndex >= 0
                      /\ cm.currentlyVisibleIndex < CanvasCount
             hidden ==
                 IF hides
                 THEN [cm EXCEPT
                         !.canvases[cm.currentlyVisibleIndex].display = "none"]
                 ELSE cm
         IN [ok |-> TRUE,
             cm |-> [hidden EXCEPT !.canvases[index].display = "block",
                                   !.currentlyVisibleIndex = index],
             toggles |-> (IF hides THEN 1 ELSE 0) + 1]

\* toggles: the assignments to style.display the call makes
ShowCanvas(cm, index) ==
    IF ~cm.isInitialized \/ index < 0 \/ index >= CanvasCount
    THEN [ok |-> FALSE, cm |-> cm, toggles |-> 0]
    ELSE IF cm.currentlyVisibleIndex = index
    THEN [ok |-> TRUE, cm |-> cm, toggles |-> 0]
    ELSE LET hides == cm.currentlyVisibleIndex >= 0
                      /\ cm.currentlyVisibleIndex < CanvasCount
             hidden ==
                 IF hides
                 THEN [cm EXCEPT
                         !.canvases[cm.currentlyVisibleIndex].display = "none"]
                 ELSE cm
         IN [ok |-> TRUE,
             cm |-> [hidden EXCEPT !.canvases[index].display = "block",
                                   !.currentlyVisibleIndex = index],
             toggles |-> (IF hides THEN 1 ELSE 0) + 1]

\* a hideAllCanvases that hides the canvas and keeps its index
HideAllCanvases_KeepsIndex(cm) ==
    IF cm.currentlyVisibleIndex >= 0 /\ cm.currentlyVisibleIndex < CanvasCount
    THEN [cm EXCEPT !.canvases[cm.currentlyVisibleIndex].display = "none"]
    ELSE cm

HideAllCanvases(cm) ==
    IF cm.currentlyVisibleIndex >= 0 /\ cm.currentlyVisibleIndex < CanvasCount
    THEN [cm EXCEPT !.canvases[cm.currentlyVisibleIndex].display = "none",
                    !.currentlyVisibleIndex = 0 - 1]
    ELSE cm

(* -------------------------- AnimationRenderer ------------------------- *)
\* shown: the indices this renderer has passed to showCanvas since it was
\* started, oldest first; timers: the interval timers it has set and not
\* cleared; renderingInterval: whether it holds the handle of one; period:
\* the interval the last timer was set with
\* 1000 / fps, kept as the quotient it is
Interval(fps) == [num |-> MillisPerSecond, den |-> fps]

NoPeriod == [num |-> 0, den |-> 1]

NewRenderer ==
    [isRendering |-> FALSE, currentFrameIndex |-> 0, direction |-> 1,
     renderingInterval |-> FALSE, frameRate |-> DefaultFrameRate,
     frameInterval |-> Interval(DefaultFrameRate), period |-> NoPeriod,
     shown |-> <<>>, timers |-> 0]

\* a startRendering without the isRendering guard
StartRendering_NoRunningGuard(r, cm) ==
    IF ~cm.isInitialized THEN r
    ELSE [r EXCEPT !.isRendering = TRUE, !.currentFrameIndex = 0,
                   !.direction = 1, !.renderingInterval = TRUE,
                   !.period = r.frameInterval,
                   !.shown = <<>>, !.timers = @ + 1]

StartRendering(r, cm) ==
    IF r.isRendering THEN r
    ELSE IF ~cm.isInitialized THEN r
    ELSE [r EXCEPT !.isRendering = TRUE, !.currentFrameIndex = 0,
                   !.direction = 1, !.renderingInterval = TRUE,
                   !.period = r.frameInterval,
                   !.shown = <<>>, !.timers = @ + 1]

\* a stopRendering that drops the handle without clearing the timer
StopRendering_KeepsTimer(r) ==
    IF ~r.isRendering THEN r
    ELSE [r EXCEPT !.isRendering = FALSE, !.renderingInterval = FALSE]

StopRendering(r) ==
    IF ~r.isRendering THEN r
    ELSE [r EXCEPT !.isRendering = FALSE, !.renderingInterval = FALSE,
                   !.timers = IF r.renderingInterval THEN @ - 1 ELSE @]

\* a walk that turns one tick late at the far end
Advance_TurnsLate(index, direction) ==
    LET next == index + direction
    IN IF next > LastFrameIndex
       THEN [index |-> LastFrameIndex, direction |-> 0 - 1]
       ELSE IF next <= 0 THEN [index |-> 0, direction |-> 1]
       ELSE [index |-> next, direction |-> direction]

\* a walk that keeps going backward at index 0
Advance_NoTurnAtZero(index, direction) ==
    LET next == index + direction
    IN IF next >= LastFrameIndex
       THEN [index |-> LastFrameIndex, direction |-> 0 - 1]
       ELSE IF next <= 0 THEN [index |-> 0, direction |-> direction]
       ELSE [index |-> next, direction |-> direction]

\* the index and direction after one step of the ping-pong walk
Advance(index, direction) ==
    LET next == index + direction
    IN IF next >= LastFrameIndex
       THEN [index |-> LastFrameIndex, direction |-> 0 - 1]
       ELSE IF next <= 0 THEN [index |-> 0, direction |-> 1]
       ELSE [index |-> next, direction |-> direction]

\* a tick that does not look at the bank's isInitialized flag
RenderCurrentFrame_NoInitCheck(r, cm) ==
    LET step == Advance(r.currentFrameIndex, r.direction)
    IN [r |-> [r EXCEPT !.currentFrameIndex = step.index,
                        !.direction = step.direction,
                        !.shown = Append(@, r.currentFrameIndex)],
        cm |-> ShowCanvas(cm, r.currentFrameIndex).cm]

RenderCurrentFrame(r, cm) ==
    IF ~cm.isInitialized THEN [r |-> r, cm |-> cm]
    ELSE LET step == Advance(r.currentFrameIndex, r.direction)
         IN [r |-> [r EXCEPT !.currentFrameIndex = step.index,
                             !.direction = step.direction,
                             !.shown = Append(@, r.currentFrameIndex)],
             cm |-> ShowCanvas(cm, r.currentFrameIndex).cm]

RendererCleanup(r, cm) ==
    [r |-> [StopRendering(r) EXCEPT !.currentFrameIndex = 0, !.direction = 1],
     cm |-> IF cm.isInitialized THEN HideAllCanvases(cm) ELSE cm]

RenderSpecificFrame(cm, frameIndex) ==
    IF frameIndex < 0 \/ frameIndex >= CanvasCount THEN cm
    ELSE ShowCanvas(cm, frameIndex).cm

\* a setFrameRate that leaves a running timer as it is
SetFrameRate_NoRestart(r, cm, fps) ==
    IF fps < MinFrameRate \/ fps > MaxFrameRate THEN r
    ELSE [r EXCEPT !.frameRate = fps, !.frameInterval = Interval(fps)]

SetFrameRate(r, cm, fps) ==
    IF fps < MinFrameRate \/ fps > MaxFrameRate THEN r
    ELSE LET set == [r EXCEPT !.frameRate = fps,
                              !.frameInterval = Interval(fps)]
         IN IF set.isRendering
            THEN StartRendering(StopRendering(set), cm)
            ELSE set

\* whether onResize raises: on an initialized bank it calls
\* this.initializePreviewCanvas, which no class defines
OnResizeRaises(cm) == cm.isInitialized

(* ---------------------------- CameraManager --------------------------- *)
CamState ==
    [isStreaming |-> isStreaming, reader |-> reader, stream |-> stream,
     generator |-> generator, currentFacingMode |-> currentFacingMode]

SetCam(cam) ==
    /\ isStreaming' = cam.isStreaming
    /\ reader' = cam.reader
    /\ stream' = cam.stream
    /\ generator' = cam.generator
    /\ currentFacingMode' = cam.currentFacingMode

\* initialize() and toggleCamera(): a new stream and a reader on it; the read
\* that a generator had pending on the previous reader ends that generator
NewStream(cam) ==
    [cam EXCEPT !.reader = TRUE, !.stream = TRUE,
                !.generator = IF @ = "reading" THEN "done" ELSE @]

\* getFrameStream() and the first next() of its consumer: the flag is set and
\* the generator awaits reader.read(); on a null reader the read throws
\* inside the try block and the generator returns
GetFrameStream(cam) ==
    [cam EXCEPT !.isStreaming = TRUE,
                !.generator = IF cam.reader THEN "reading" ELSE "done"]

\* the generator resumed by next() after a yield: back to the loop test
Resume(cam) ==
    [cam EXCEPT !.generator =
        IF cam.isStreaming /\ cam.reader THEN "reading" ELSE "done"]

\* Math.floor(30 / targetFPS): every how many frames one is yielded
ThrottleInterval == DblFloor(DblMul(DblDiv(AssumedInputFPS, TargetFPS), 1))

\* whether the frame that makes the counter frameCount is yielded; if not
\* it is closed
Yields(frameCount) == frameCount % ThrottleInterval = 0

\* a stop() that only clears the flag
CameraStop_FlagOnly(cam) ==
    [cam EXCEPT !.isStreaming = FALSE]

\* a stop() that keeps the reader
CameraStop_KeepsReader(cam) ==
    [cam EXCEPT !.isStreaming = FALSE, !.stream = FALSE,
                !.generator = IF @ = "reading" THEN "done" ELSE @]

\* stop(): releaseLock() rejects the read a generator has pending, which its
\* catch block takes, so that the generator returns
CameraStop(cam) ==
    [cam EXCEPT !.isStreaming = FALSE, !.reader = FALSE, !.stream = FALSE,
                !.generator =
                    IF cam.reader /\ @ = "reading" THEN "done" ELSE @]

\* a stop() whose releaseLock() throws: the flag is cleared, the rest is not
\* reached
CameraStopThrows(cam) ==
    [cam EXCEPT !.isStreaming = FALSE]

\* the ternary that switches the facing mode: anything but "user" gives
\* "user"
Opposite(mode) == IF mode = "user" THEN "environment" ELSE "user"

\* getPreferredFacingMode(): the rear camera for a portrait viewport, the
\* front camera otherwise
GetPreferredFacingMode(portrait) == IF portrait THEN "environment" ELSE "user"

\* calculateOptimalResolution(), for a viewport no larger than the minimum
\* resolution: the minimum resolution, and the facing mode set to the one
\* preferred for the viewport
CalculateOptimalResolution(cam, portrait) ==
    [cam |-> [cam EXCEPT !.currentFacingMode = GetPreferredFacingMode(portrait)],
     videoWidth |-> DefaultVideoWidth, videoHeight |-> DefaultVideoHeight]

\* toggleCamera() of the CameraManager with viewport-based resolution.
\* portrait: the viewport at the time of the call; outcome: "granted" when
\* the first getUserMedia resolves, "fallback" when only the second one
\* (without facingMode) does, "denied" when both reject; settings: the
\* facingMode the fallback stream's track reports, "none" when it reports
\* none. Gives the manager after the call, the facing mode requested and
\* whether the call threw.
ToggleCamera(cam, portrait, outcome, settings) ==
    LET switched == [cam EXCEPT !.currentFacingMode = Opposite(@),
                                !.reader = FALSE,
                                !.generator =
                                    IF cam.reader /\ @ = "reading"
                                    THEN "done" ELSE @]
        optimal == CalculateOptimalResolution(switched, portrait)
        requested == optimal.cam.currentFacingMode
        actualFacingMode ==
            IF outcome = "granted" THEN requested
            ELSE IF settings = "none" THEN "unknown" ELSE settings
    IN IF outcome = "denied"
       THEN [cam |-> [optimal.cam EXCEPT !.currentFacingMode = Opposite(@)],
             requested |-> requested, threw |-> TRUE]
       ELSE [cam |-> [optimal.cam EXCEPT !.stream = TRUE, !.reader = TRUE,
                                         !.currentFacingMode = actualFacingMode],
             requested |-> requested, threw |-> FALSE]

\* toggleCamera() of modules/camera.js: one getUserMedia with the switched
\* facing mode, no fallback, and the resolution fields left as they are
ToggleCameraFixedSize(cam, outcome) ==
    LET switched == [cam EXCEPT !.currentFacingMode = Opposite(@),
                                !.reader = FALSE,
                                !.generator =
                                    IF cam.reader /\ @ = "reading"
                                    THEN "done" ELSE @]
        requested == switched.currentFacingMode
    IN IF outcome = "denied"
       THEN [cam |-> [switched EXCEPT !.currentFacingMode = Opposite(@)],
             requested |-> requested, threw |-> TRUE]
       ELSE [cam |-> [switched EXCEPT !.stream = TRUE, !.reader = TRUE],
             requested |-> requested, threw |-> FALSE]

(* --------------------------- FrameProcessor --------------------------- *)
\* rows spread over the upper half of the frame only
SourceRow_UpperHalf(canvasIndex, frameHeight) ==
    IF canvasIndex = 0 \/ frameHeight < 2 THEN 0
    ELSE DblFloor(DblMul(DblDiv(canvasIndex, SliceCount), frameHeight \div 2))

\* the row of the slice after this one
SourceRow_NextSlice(canvasIndex, frameHeight) ==
    IF frameHeight = 0 THEN 0
    ELSE DblFloor(DblMul(DblDiv(canvasIndex + 1, SliceCount), frameHeight))

\* Math.floor((canvasIndex / 30) * frameHeight) in Number arithmetic
SourceRow(canvasIndex, frameHeight) ==
    IF canvasIndex = 0 \/ frameHeight = 0 THEN 0
    ELSE DblFloor(DblMul(DblDiv(canvasIndex, SliceCount), frameHeight))

\* the rows one frame takes, by canvas index, for every height of the model
SourceRowTable ==
    [frameHeight \in Heights \cup LiveHeights \cup TallHeights |->
        [canvasIndex \in 0..(SliceCount - 1) |->
            SourceRow(canvasIndex, frameHeight)]]

SourceRows(frameHeight) == SourceRowTable[frameHeight]

\* a loop that is left at the first canvas whose draw fails
WriteRows_StopsAtFailure(cm, fr, rows, targetRow, drawThrows) ==
    [cm EXCEPT !.canvases =
        [canvasIndex \in DOMAIN cm.canvases |->
            IF canvasIndex < SliceCount
               /\ \A failed \in drawThrows : canvasIndex < failed
            THEN WriteFrameRow(cm, canvasIndex, fr, rows[canvasIndex], targetRow,
                               canvasIndex \in drawThrows).cm.canvases[canvasIndex]
            ELSE cm.canvases[canvasIndex]]]

\* the loop over the 30 canvases: each call changes its own canvas only
WriteRows(cm, fr, rows, targetRow, drawThrows) ==
    [cm EXCEPT !.canvases =
        [canvasIndex \in DOMAIN cm.canvases |->
            IF canvasIndex < SliceCount
            THEN WriteFrameRow(cm, canvasIndex, fr, rows[canvasIndex], targetRow,
                               canvasIndex \in drawThrows).cm.canvases[canvasIndex]
            ELSE cm.canvases[canvasIndex]]]

\* whether some drawImage call of the loop is reached and throws
DrawFails(cm, fr, rows, targetRow, drawThrows) ==
    \E canvasIndex \in drawThrows :
        /\ GetContext(cm, canvasIndex)
        /\ rows[canvasIndex] < fr.displayHeight
        /\ targetRow < cm.height

\* a fill that takes one frame more than the frame height
NextTargetRow_OneLate(row, frameHeight) ==
    IF row + 1 > frameHeight THEN [row |-> 0, complete |-> TRUE]
    ELSE [row |-> row + 1, complete |-> FALSE]

\* a target row that never moves
NextTargetRow_Stalls(row, frameHeight) ==
    [row |-> row, complete |-> FALSE]

\* the target row for the next frame, and whether the fill is complete
NextTargetRow(row, frameHeight) ==
    IF row + 1 >= frameHeight THEN [row |-> 0, complete |-> TRUE]
    ELSE [row |-> row + 1, complete |-> FALSE]

\* a processFrame without the isComplete guard
ExitPath_NoCompleteGuard(complete, processing, initialized, row, frameHeight, manager, stopThrows) ==
    IF processing THEN "overlap"
    ELSE IF ~initialized THEN "uninitialized"
    ELSE IF ~NextTargetRow(row, frameHeight).complete THEN "processed"
    ELSE IF manager /\ stopThrows THEN "exception"
    ELSE "completed"

\* the path one processFrame call takes
ExitPath(complete, processing, initialized, row, frameHeight, manager, stopThrows) ==
    IF complete THEN "complete"
    ELSE IF processing THEN "overlap"
    ELSE IF ~initialized THEN "uninitialized"
    ELSE IF ~NextTargetRow(row, frameHeight).complete THEN "processed"
    ELSE IF manager /\ stopThrows THEN "exception"
    ELSE "completed"

\* a catch block that does not close the frame
CloseCalls_NoCloseInCatch(exit) ==
    (IF exit = "complete" THEN 1 ELSE 0)
    + (IF exit = "overlap" THEN 1 ELSE 0)
    + (IF exit \in {"uninitialized", "processed", "completed"} THEN 1 ELSE 0)

\* the frame.close() calls executed on a path
CloseCalls(exit) ==
    (IF exit = "complete" THEN 1 ELSE 0)
    + (IF exit = "overlap" THEN 1 ELSE 0)
    + (IF exit \in {"uninitialized", "processed", "completed"} THEN 1 ELSE 0)
    + (IF exit = "exception" THEN 1 ELSE 0)

\* isProcessing when the call returns: the finally block runs on every
\* path, the two early returns inside the try block included
FlagAfter(exit) == FALSE

\* a count taken before the two guards
Counted_BeforeGuards(exit) == TRUE

\* whether a path passes the two guards and counts the frame
Counted(exit) == exit \notin {"complete", "overlap"}

\* whether a path runs the row loop
Writes(exit) == exit \in {"processed", "completed", "exception"}

SetDimensions(w, h) ==
    LET cm == CanvasManagerInitialize(CmState, w, h)
    IN /\ SetCm(cm)
       /\ renderers' = Append(renderers, StartRendering(NewRenderer, cm))
       /\ animationRenderer' = Len(renderers) + 1
       /\ UNCHANGED <<frameProcessingCount, isProcessing, currentTargetRow,
                      isComplete, cameraManager>>

SetCameraManager ==
    /\ ~cameraManager
    /\ cameraManager' = TRUE
    /\ UNCHANGED <<frameProcessingCount, isProcessing, currentTargetRow,
                   isComplete, animationRenderer, cmVars, renderers, camVars,
                   histVars>>

\* The read of the generator resolves with the next frame of the stream,
\* the generator yields it, the consuming loop calls processFrame with it
\* and then next(), which resumes the generator: all in one turn of the
\* event loop. drawThrows: the canvases whose drawImage throws; stopThrows:
\* whether cameraManager.stop() throws
ProcessFrame(drawThrows, stopThrows) ==
    LET fr == [no |-> fed, displayHeight |-> videoHeight]
        rows == SourceRows(fr.displayHeight)
        exit == ExitPath(isComplete, isProcessing, isInitialized,
                         currentTargetRow, fr.displayHeight, cameraManager,
                         stopThrows)
        next == NextTargetRow(currentTargetRow, fr.displayHeight)
        fails == Writes(exit) /\ DrawFails(CmState, fr, rows, currentTargetRow, drawThrows)
        stops == Writes(exit) /\ next.complete /\ cameraManager
        atYield == [CamState EXCEPT !.generator = "yielded"]
    IN /\ generator = "reading" /\ reader /\ stream
       /\ fed < videoHeight + ExtraFrames
       /\ drawThrows # {} => fails /\ failedFrames < MaxFailedFrames
       /\ stopThrows => exit = "exception"
       /\ frameProcessingCount' =
              IF Counted(exit) THEN frameProcessingCount + 1
              ELSE frameProcessingCount
       /\ IF Writes(exit)
          THEN /\ SetCm(WriteRows(CmState, fr, rows, currentTargetRow, drawThrows))
               /\ currentTargetRow' = next.row
               /\ isComplete' = (isComplete \/ next.complete)
          ELSE UNCHANGED <<cmVars, currentTargetRow, isComplete>>
       /\ SetCam(Resume(IF ~stops THEN atYield
                         ELSE IF stopThrows THEN CameraStopThrows(atYield)
                         ELSE CameraStop(atYield)))
       /\ isProcessing' = FALSE
       /\ frame' = [no |-> fr.no, displayHeight |-> fr.displayHeight,
                    closes |-> CloseCalls(exit), exit |-> exit]
       /\ fed' = fed + 1
       /\ failedFrames' = IF fails THEN failedFrames + 1 ELSE failedFrames
       /\ UNCHANGED <<cameraManager, animationRenderer, renderers, videoWidth,
                      videoHeight, freshAtInit, call>>

Cleanup ==
    LET rc == IF animationRenderer # 0
              THEN RendererCleanup(renderers[animationRenderer], CmState)
              ELSE [r |-> NewRenderer, cm |-> CmState]
    IN /\ frameProcessingCount' = 0
       /\ currentTargetRow' = 0
       /\ isComplete' = FALSE
       /\ isProcessing' = FALSE
       /\ cameraManager' = FALSE
       /\ renderers' = IF animationRenderer # 0
                       THEN [renderers EXCEPT ![animationRenderer] = rc.r]
                       ELSE renderers
       /\ animationRenderer' = 0
       /\ SetCm(CanvasManagerCleanup(rc.cm))
       /\ UNCHANGED <<camVars, frame, fed, freshAtInit, failedFrames, call>>

\* the setInterval callback of renderer i
Tick(i, bound) ==
    LET rc == RenderCurrentFrame(renderers[i], CmState)
    IN /\ renderers[i].timers > 0
       /\ Len(renderers[i].shown) < bound
       /\ renderers' = [renderers EXCEPT ![i] = rc.r]
       /\ SetCm(rc.cm)
       /\ UNCHANGED <<fpVars, camVars, histVars>>

(* ---------------------- camera and entry module ----------------------- *)
\* The camera delivers its first frame of w x h (cameraManager.initialize on
\* Start, cameraManager.toggleCamera on a camera switch); the entry module
\* hands the size to setDimensions and starts the processing loop, whose
\* frames all have that size.
CameraReady(w, h) ==
    /\ Len(renderers) < MaxRenderers
    /\ videoWidth' = w
    /\ videoHeight' = h
    /\ SetCam(GetFrameStream(NewStream(CamState)))
    /\ SetDimensions(w, h)
    /\ frame' = NoFrame
    /\ fed' = 0
    /\ freshAtInit' = (frameProcessingCount = 0 /\ currentTargetRow = 0
                       /\ ~isComplete /\ ~isProcessing)
    /\ UNCHANGED <<failedFrames, call>>

\* the sets of canvases whose draw may throw in one frame
FailSets == {{}, {0}, {SliceCount - 1}}

Next ==
    \/ \E w \in Widths, h \in Heights : CameraReady(w, h)
    \/ \E drawThrows \in FailSets, stopThrows \in BOOLEAN :
           ProcessFrame(drawThrows, stopThrows)
    \/ SetCameraManager
    \/ Cleanup
    \/ \E i \in 1..Len(renderers) : Tick(i, FewTicks)

Spec == Init /\ [][Next]_vars

\* The application as the entry module wires it: the Start handler and the
\* camera switch, the processing loop and the renderers' timers. The entry
\* module calls neither setCameraManager nor cleanup.
NextApp ==
    \/ \E w \in Widths, h \in Heights : CameraReady(w, h)
    \/ \E drawThrows \in FailSets : ProcessFrame(drawThrows, FALSE)
    \/ \E i \in 1..Len(renderers) : Tick(i, FewTicks)

SpecApp == Init /\ [][NextApp]_vars

\* One camera start, after which frames of its height keep arriving: the
\* processing loop takes every frame the stream delivers, so a frame that
\* can be delivered is eventually processed.
FrameDelivered == \E drawThrows \in FailSets : ProcessFrame(drawThrows, FALSE)

NextLive ==
    \/ \E w \in Widths, h \in LiveHeights :
           renderers = <<>> /\ CameraReady(w, h)
    \/ FrameDelivered
    \/ SetCameraManager
    \/ \E i \in 1..Len(renderers) : Tick(i, FewTicks)

SpecLive == Init /\ [][NextLive]_vars /\ WF_vars(FrameDelivered)

\* The renderer followed over more than one period, without frames; a
\* camera switch is followed only while no renderer has ticked more than
\* FewTicks times.
NextRender ==
    \/ \E w \in Widths :
           /\ \A i \in 1..Len(renderers) : Len(renderers[i].shown) <= FewTicks
           /\ CameraReady(w, MaxHeight)
    \/ Cleanup
    \/ \E i \in 1..Len(renderers) :
           Tick(i, IF i = Len(renderers) THEN MaxTicks ELSE FewTicks)

SpecRender == Init /\ [][NextRender]_vars

\* one camera of height 75, filled without failures
NextTall ==
    \/ \E w \in Widths, h \in TallHeights : renderers = <<>> /\ CameraReady(w, h)
    \/ ProcessFrame({}, FALSE)
    \/ SetCameraManager

SpecTall == Init /\ [][NextTall]_vars

(* ------------------- the bank's methods called directly ---------------- *)
\* the canvas indexes and the rows the methods are called with: in range, at
\* both ends of the range and just outside it
BankIndexes == {0 - 1, 0, 1, CanvasCount - 1, CanvasCount}
WriteIndexes == {0 - 1, 0, CanvasCount}
BankHeights == {1, 2}
BankRows == (0 - 1)..2
\* canvasIndex, sourceRow and targetRow of the writeFrameRow calls: any
\* source row with a target row that some bank has, and one argument out of
\* range with the others in range
WriteArgs ==
    {a \in WriteIndexes \X BankRows \X BankRows :
        \/ a[1] = 0 /\ a[3] \in {0, 1}
        \/ a[2] = 0 /\ a[3] = 0
        \/ a[1] = 0 /\ a[2] = 0}

\* the record of a call of op made in the current state
Called(op) ==
    [NoCall EXCEPT !.op = op, !.wasInitialized = isInitialized,
                   !.wasVisible = currentlyVisibleIndex, !.prev = call.op]

InitializeCall(w, h) ==
    /\ SetCm(CanvasManagerInitialize(CmState, w, h))
    /\ call' = [Called("initialize") EXCEPT !.width = w, !.height = h]
    /\ UNCHANGED <<fpVars, renderers, camVars, frame, fed, freshAtInit,
                   failedFrames>>

WriteFrameRowCall(canvasIndex, displayHeight, sourceRow, targetRow, throws) ==
    LET fr == [no |-> 0, displayHeight |-> displayHeight]
        reached == WriteFrameRow(CmState, canvasIndex, fr, sourceRow,
                                 targetRow, FALSE).ok
        done == WriteFrameRow(CmState, canvasIndex, fr, sourceRow, targetRow,
                              throws)
    IN /\ throws => reached
       /\ done.ok =>
              canvases[canvasIndex].rows[targetRow].writes < MaxRowWrites
       /\ SetCm(done.cm)
       /\ call' = [Called("writeFrameRow") EXCEPT
                                 !.index = canvasIndex,
                                 !.displayHeight = displayHeight,
                                 !.sourceRow = sourceRow,
                                 !.targetRow = targetRow,
                                 !.throws = throws, !.ret = done.ok]
       /\ UNCHANGED <<fpVars, renderers, camVars, frame, fed, freshAtInit,
                      failedFrames>>

ShowCanvasCall(index) ==
    LET done == ShowCanvas(CmState, index)
    IN /\ SetCm(done.cm)
       /\ call' = [Called("showCanvas") EXCEPT !.index = index,
                                 !.ret = done.ok, !.toggles = done.toggles]
       /\ UNCHANGED <<fpVars, renderers, camVars, frame, fed, freshAtInit,
                      failedFrames>>

HideAllCanvasesCall ==
    /\ SetCm(HideAllCanvases(CmState))
    /\ call' = Called("hideAllCanvases")
    /\ UNCHANGED <<fpVars, renderers, camVars, frame, fed, freshAtInit,
                   failedFrames>>

CleanupCall ==
    /\ SetCm(CanvasManagerCleanup(CmState))
    /\ call' = Called("cleanup")
    /\ UNCHANGED <<fpVars, renderers, camVars, frame, fed, freshAtInit,
                   failedFrames>>

NextBank ==
    \/ \E w \in Widths, h \in BankHeights : InitializeCall(w, h)
    \/ \E a \in WriteArgs, displayHeight \in BankHeights, throws \in BOOLEAN :
           WriteFrameRowCall(a[1], displayHeight, a[2], a[3], throws)
    \/ \E index \in BankIndexes : ShowCanvasCall(index)
    \/ HideAllCanvasesCall
    \/ CleanupCall

SpecBank == Init /\ [][NextBank]_vars

(* ----------------- the renderer's methods called directly -------------- *)
StartRenderingCall(i) ==
    /\ renderers' = [renderers EXCEPT ![i] = StartRendering(@, CmState)]
    /\ call' = [Called("startRendering") EXCEPT !.index = i]
    /\ UNCHANGED <<fpVars, cmVars, camVars, frame, fed, freshAtInit,
                   failedFrames>>

StopRenderingCall(i) ==
    /\ renderers' = [renderers EXCEPT ![i] = StopRendering(@)]
    /\ call' = [Called("stopRendering") EXCEPT !.index = i]
    /\ UNCHANGED <<fpVars, cmVars, camVars, frame, fed, freshAtInit,
                   failedFrames>>

\* one renderer, started and stopped from outside, over a bank that is
\* cleaned up and initialized again from outside
NextStart ==
    \/ \E w \in Widths : renderers = <<>> /\ CameraReady(w, MaxHeight)
    \/ \E i \in 1..Len(renderers) : Tick(i, MaxTicks)
    \/ \E i \in 1..Len(renderers) : StartRenderingCall(i)
    \/ \E i \in 1..Len(renderers) : StopRenderingCall(i)
    \/ CleanupCall
    \/ \E w \in Widths : InitializeCall(w, MaxHeight)

SpecStart == Init /\ [][NextStart]_vars

\* the frame rates setFrameRate is called with: both ends of the accepted
\* range, one inside it and the neighbours outside it
FrameRates ==
    {MinFrameRate - 1, MinFrameRate, DefaultFrameRate - 6, MaxFrameRate,
     MaxFrameRate + 1}

SetFrameRateCall(i, fps) ==
    /\ renderers' = [renderers EXCEPT ![i] = SetFrameRate(@, CmState, fps)]
    /\ call' = [Called("setFrameRate") EXCEPT !.index = i, !.fps = fps]
    /\ UNCHANGED <<fpVars, cmVars, camVars, frame, fed, freshAtInit,
                   failedFrames>>

RenderSpecificFrameCall(i, frameIndex) ==
    /\ SetCm(RenderSpecificFrame(CmState, frameIndex))
    /\ call' = [Called("renderSpecificFrame") EXCEPT !.index = frameIndex]
    /\ UNCHANGED <<fpVars, renderers, camVars, frame, fed, freshAtInit,
                   failedFrames>>

OnResizeCall(i) ==
    /\ call' = [Called("onResize") EXCEPT !.index = i,
                                          !.raised = OnResizeRaises(CmState)]
    /\ UNCHANGED <<fpVars, cmVars, renderers, camVars, frame, fed,
                   freshAtInit, failedFrames>>

\* one renderer with every method of its class called from outside, over a
\* bank that is cleaned up and initialized again from outside
NextRate ==
    \/ \E w \in Widths : renderers = <<>> /\ CameraReady(w, MaxHeight)
    \/ \E i \in 1..Len(renderers) : Tick(i, FewTicks)
    \/ \E i \in 1..Len(renderers) : StartRenderingCall(i)
    \/ \E i \in 1..Len(renderers) : StopRenderingCall(i)
    \/ \E i \in 1..Len(renderers), fps \in FrameRates : SetFrameRateCall(i, fps)
    \/ \E i \in 1..Len(renderers), frameIndex \in BankIndexes :
           RenderSpecificFrameCall(i, frameIndex)
    \/ \E i \in 1..Len(renderers) : OnResizeCall(i)
    \/ CleanupCall
    \/ \E w \in Widths : InitializeCall(w, MaxHeight)

SpecRate == Init /\ [][NextRate]_vars

(* --------------------- the source row computed alone ------------------- *)
\* every small frame height, and the heights cameras commonly deliver
SourceHeights == (1..MaxSourceHeight) \cup {150, 360, 480, 720, 1080}

\* the sourceRow expression of the row loop, for canvas canvasIndex and a
\* frame of height frameHeight; it depends on nothing else, so one
\* evaluation per behaviour covers it
SourceRowCall(canvasIndex, frameHeight) ==
    /\ call.op = "none"
    /\ call' = [Called("sourceRow") EXCEPT
                    !.index = canvasIndex, !.displayHeight = frameHeight,
                    !.sourceRow = SourceRow(canvasIndex, frameHeight)]
    /\ UNCHANGED <<fpVars, cmVars, renderers, camVars, frame, fed,
                   freshAtInit, failedFrames>>

NextRows ==
    \E canvasIndex \in 0..(SliceCount - 1), frameHeight \in SourceHeights :
        SourceRowCall(canvasIndex, frameHeight)

SpecRows == Init /\ [][NextRows]_vars

(* ------------------------ the throttle alone --------------------------- *)
\* the body of the generator's loop for the frame that makes the counter
\* frameCount; it depends on the counter only
ReadCall(frameCount) ==
    /\ call.op = "none"
    /\ call' = [Called("read") EXCEPT
                    !.index = frameCount,
                    !.ret = IF Yields(frameCount) THEN "yielded" ELSE "closed"]
    /\ UNCHANGED <<fpVars, cmVars, renderers, camVars, frame, fed,
                   freshAtInit, failedFrames>>

NextThrottle == \E frameCount \in 1..MaxFramesRead : ReadCall(frameCount)

SpecThrottle == Init /\ [][NextThrottle]_vars

(* ------------------ the camera's stop called directly ----------------- *)
\* cameraManager.stop() called from outside the processor (the entry
\* module's beforeunload and camera switch handlers): between two turns of
\* the processing loop, while the generator awaits its read
CameraStopCall ==
    /\ SetCam(CameraStop(CamState))
    /\ call' = Called("stop")
    /\ UNCHANGED <<fpVars, cmVars, renderers, videoWidth, videoHeight, frame,
                   fed, freshAtInit, failedFrames>>

\* the camera started, stopped from outside and by the processor and
\* started again once its stream has ended, and the renderers stopped from
\* outside; only the timer of the renderer in use is followed
NextStream ==
    \/ \E w \in Widths :
           /\ generator \in {"none", "done"}
           /\ CameraReady(w, MaxHeight)
    \/ \E stopThrows \in BOOLEAN : ProcessFrame({}, stopThrows)
    \/ SetCameraManager
    \/ CameraStopCall
    \/ \E i \in 1..Len(renderers) : StopRenderingCall(i)
    \/ \E i \in {animationRenderer} \ {0} : Tick(i, FewTicks)

SpecStream == Init /\ [][NextStream]_vars

(* ----------------------- toggleCamera called directly ------------------ *)
\* what the two getUserMedia calls of one toggle can do, and the facing
\* modes a track can report
Outcomes == {"granted", "fallback", "denied"}
TrackFacingModes == {"user", "environment", "none"}

\* the record of one toggleCamera call: the mode before it, the mode it
\* requested, how it ended, and the mode before the previous call when that
\* one was a toggle granted at its first request
ToggleRecord(op, portrait, outcome, done) ==
    [Called(op) EXCEPT !.was = currentFacingMode,
                       !.requested = done.requested,
                       !.ret = IF done.threw THEN "threw" ELSE outcome,
                       !.portrait = portrait,
                       !.twoBack = IF call.op = op /\ call.ret = "granted"
                                   THEN call.was ELSE "none"]

\* a toggle with viewport-based resolution; on success the first frame read
\* gives the size h
ToggleCameraCall(portrait, outcome, settings, w, h) ==
    LET done == ToggleCamera(CamState, portrait, outcome, settings)
    IN /\ call.op \in {"none", "toggleCamera"}
       /\ outcome # "fallback" => settings = "none"
       /\ SetCam(done.cam)
       /\ videoWidth' = IF done.threw THEN DefaultVideoWidth ELSE w
       /\ videoHeight' = IF done.threw THEN DefaultVideoHeight ELSE h
       /\ call' = ToggleRecord("toggleCamera", portrait, outcome, done)
       /\ UNCHANGED <<fpVars, cmVars, renderers, frame, fed, freshAtInit,
                      failedFrames>>

\* a toggle of modules/camera.js
ToggleCameraFixedSizeCall(outcome) ==
    LET done == ToggleCameraFixedSize(CamState, outcome)
    IN /\ call.op \in {"none", "toggleCameraFixedSize"}
       /\ outcome # "fallback"
       /\ SetCam(done.cam)
       /\ call' = ToggleRecord("toggleCameraFixedSize", FALSE, outcome, done)
       /\ UNCHANGED <<fpVars, cmVars, renderers, videoWidth, videoHeight,
                      frame, fed, freshAtInit, failedFrames>>

\* the camera switched again and again, in one of the two versions of the
\* class, with getFrameStream called on the result
GetFrameStreamCall ==
    /\ call.op # "none" /\ generator # "reading"
    /\ SetCam(GetFrameStream(CamState))
    /\ UNCHANGED <<fpVars, cmVars, renderers, videoWidth, videoHeight,
                   histVars>>

NextToggle ==
    \/ \E portrait \in BOOLEAN, outcome \in Outcomes,
          settings \in TrackFacingModes, w \in Widths, h \in Heights :
           ToggleCameraCall(portrait, outcome, settings, w, h)
    \/ \E outcome \in Outcomes : ToggleCameraFixedSizeCall(outcome)
    \/ GetFrameStreamCall

SpecToggle == Init /\ [][NextToggle]_vars

(* --------------------------- DownloadManager --------------------------- *)
\* whether copyCanvasFrame throws: the bank has no context at frameIndex
\* (the render context exists once createRenderCanvas has run)
CopyThrows(cm, frameIndex) == frameIndex \notin DOMAIN cm.canvases

\* a backward loop that starts at the last canvas
LoopNext_BackFromLast(phase, i) ==
    IF phase = "forward"
    THEN IF i + 1 < CanvasCount THEN [phase |-> "forward", i |-> i + 1]
         ELSE IF CanvasCount - 1 > 0
              THEN [phase |-> "backward", i |-> CanvasCount - 1]
              ELSE [phase |-> "done", i |-> 0]
    ELSE IF i - 1 > 0 THEN [phase |-> "backward", i |-> i - 1]
         ELSE [phase |-> "done", i |-> 0]

\* the loop position after the iteration at i: the forward loop runs i from
\* 0 while i < canvasCount, the backward loop from canvasCount - 2 while
\* i > 0, and output.finalize() follows
LoopNext(phase, i) ==
    IF phase = "forward"
    THEN IF i + 1 < CanvasCount THEN [phase |-> "forward", i |-> i + 1]
         ELSE IF CanvasCount - 2 > 0
              THEN [phase |-> "backward", i |-> CanvasCount - 2]
              ELSE [phase |-> "done", i |-> 0]
    ELSE IF i - 1 > 0 THEN [phase |-> "backward", i |-> i - 1]
         ELSE [phase |-> "done", i |-> 0]

\* a click on the download button: generateVideoDownload up to its first
\* await (output.start()), with the render canvas created
GenerateVideoDownload ==
    /\ call.op = "none"
    /\ call' = [Called("export") EXCEPT !.ret = "forward", !.index = 0]
    /\ UNCHANGED <<fpVars, cmVars, renderers, camVars, frame, fed,
                   freshAtInit, failedFrames>>

\* one iteration of the export loops, from one await to the next:
\* copyCanvasFrame(i) and videoSource.add; a throw of copyCanvasFrame ends
\* the export in the catch block
ExportFrame ==
    LET i == call.index
        next == LoopNext(call.ret, i)
    IN /\ call.op = "export" /\ call.ret \in {"forward", "backward"}
       /\ call' = IF CopyThrows(CmState, i)
                  THEN [call EXCEPT !.ret = "failed"]
                  ELSE [call EXCEPT !.emitted = Append(@, i),
                                    !.ret = next.phase, !.index = next.i]
       /\ UNCHANGED <<fpVars, cmVars, renderers, camVars, frame, fed,
                      freshAtInit, failedFrames>>

\* an export while the camera is started and switched, frames are written
\* and the renderers tick
NextExport ==
    \/ \E w \in Widths : CameraReady(w, MaxHeight)
    \/ ProcessFrame({}, FALSE)
    \/ \E i \in 1..Len(renderers) : Tick(i, FewTicks)
    \/ GenerateVideoDownload
    \/ ExportFrame

SpecExport == Init /\ [][NextExport]_vars

(* -------------------- the paths of processFrame alone ------------------ *)
\* the frame heights and target rows the paths are evaluated with
GuardHeights == 1..(MaxHeight + 2)

\* processFrame evaluated once on a processor whose fields hold the given
\* values, with a frame of the given height
ProcessFrameOn(complete, processing, initialized, manager, row, frameHeight) ==
    LET exit == ExitPath(complete, processing, initialized, row, frameHeight,
                         manager, FALSE)
    IN /\ call.op = "none"
       /\ call' = [Called("processFrame") EXCEPT
                                 !.wasComplete = complete,
                                 !.wasProcessing = processing,
                                 !.wasInitialized = initialized,
                                 !.manager = manager,
                                 !.targetRow = row,
                                 !.displayHeight = frameHeight,
                                 !.ret = exit,
                                 !.closes = CloseCalls(exit),
                                 !.processing = FlagAfter(exit)]
       /\ UNCHANGED <<fpVars, cmVars, renderers, camVars, frame, fed,
                      freshAtInit, failedFrames>>

NextGuard ==
    \E complete, processing, initialized, manager \in BOOLEAN,
       frameHeight \in GuardHeights :
        \E row \in 0..(frameHeight - 1) :
            ProcessFrameOn(complete, processing, initialized, manager, row,
                           frameHeight)

SpecGuard == Init /\ [][NextGuard]_vars

(* ------------------- frames and ticks over a cleaned bank -------------- *)
\* The processor and the bank cleaned up from outside while the camera's
\* stream and the renderers' timers go on: FrameProcessor.cleanup stops the
\* renderer in use, CanvasManager.cleanup called alone leaves its timer
\* running.
NextIdle ==
    \/ \E w \in Widths : CameraReady(w, MaxHeight)
    \/ ProcessFrame({}, FALSE)
    \/ \E i \in 1..Len(renderers) : Tick(i, FewTicks)
    \/ Cleanup
    \/ CleanupCall

SpecIdle == Init /\ [][NextIdle]_vars

(* ------------------------------ claims -------------------------------- *)
ProcessFrameStep ==
    \E drawThrows \in FailSets, stopThrows \in BOOLEAN :
        ProcessFrame(drawThrows, stopThrows)

CameraReadyStep ==
    \E w \in Widths, h \in Heights \cup TallHeights : CameraReady(w, h)

\* Between two callbacks no processFrame call is in flight: the flag that
\* guards against overlapping calls is never found set.
NeverInFlight == isProcessing = FALSE

\* C1: from a processor as constructed whose bank has been initialized,
\* frames of the constant height H leave isComplete false while fewer than H
\* have been fed (the target row then equals their number), and the H-th
\* leaves currentTargetRow = 0 and isComplete = true.
C1_FillCompletes ==
    (freshAtInit /\ isInitialized) =>
        /\ fed < videoHeight => (~isComplete /\ currentTargetRow = fed)
        /\ fed >= videoHeight => (isComplete /\ currentTargetRow = 0)

C1_Witness ==
    /\ freshAtInit /\ isInitialized
    /\ videoHeight = MaxHeight /\ fed = videoHeight
    /\ isComplete /\ currentTargetRow = 0

\* C2: every setDimensions call (the camera starting or being switched)
\* leaves currentTargetRow = 0 and isComplete = false.
C2_SetDimensionsResets ==
    [][CameraReadyStep => (currentTargetRow' = 0 /\ ~isComplete')]_vars

\* C3: when no draw has failed, isComplete implies that every row of every
\* canvas of the bank has been written exactly once since the bank was
\* initialized.
C3_CompleteMeansEveryRowOnce ==
    (isComplete /\ failedFrames = 0) =>
        /\ isInitialized
        /\ \A k \in 0..(CanvasCount - 1) : \A r \in 0..(height - 1) :
               canvases[k].rows[r].writes = 1

\* C4: after an uninterrupted fill of a bank of height H by H frames of
\* height H with no draw failing, row r of canvas k holds source row
\* floor(k * H / 30) of frame r.
C4_RowsHoldExactQuotient ==
    (freshAtInit /\ isInitialized /\ failedFrames = 0 /\ height = videoHeight
     /\ fed >= videoHeight) =>
        \A k \in 0..(CanvasCount - 1) : \A r \in 0..(height - 1) :
            canvases[k].rows[r] =
                [frame |-> r, row |-> (k * videoHeight) \div SliceCount,
                 writes |-> 1]

\* The same with the source row as the code computes it, in Number
\* arithmetic: all 30 canvases are written at the one shared target row, which
\* advances by one per frame.
RowsHoldNumberQuotient ==
    (freshAtInit /\ isInitialized /\ failedFrames = 0 /\ height = videoHeight
     /\ fed >= videoHeight) =>
        \A k \in 0..(CanvasCount - 1) : \A r \in 0..(height - 1) :
            canvases[k].rows[r] =
                [frame |-> r, row |-> SourceRow(k, videoHeight), writes |-> 1]

\* C5: once isComplete is true, a processFrame call closes its frame, writes
\* to no canvas and leaves currentTargetRow = 0 and isComplete = true; only a
\* cleanup or a reinitialization makes isComplete false again.
C5_CompleteIsFinal ==
    [][isComplete =>
          /\ currentTargetRow = 0
          /\ ProcessFrameStep =>
                 /\ canvases' = canvases
                 /\ currentTargetRow' = 0
                 /\ isComplete'
                 /\ frame'.closes = 1
          /\ ~isComplete' => (Cleanup \/ CameraReadyStep)]_vars

C5_Witness == isComplete /\ frame.exit = "complete" /\ frame.closes = 1

\* C6: between operations 0 <= currentTargetRow < frameHeight, the display
\* height of the frames being delivered.
C6_RowBelowFrameHeight ==
    isStreaming => (0 <= currentTargetRow /\ currentTargetRow < videoHeight)

\* C7: when processFrame returns, the frame it was given has been closed
\* exactly once, whichever way the call left.
C7_ClosedExactlyOnce == frame.exit # "none" => frame.closes = 1

C7_Witness ==
    /\ frame.exit = "exception"
    /\ frame.closes = 1
    /\ isComplete

\* C10: counted from startRendering, the n-th index a renderer passes to
\* showCanvas is 0,1,...,29,28,...,1 for n = 1..58 and 0 again for n = 59,
\* with period 58; after 58 ticks the renderer is back at index 0 going
\* forward, and the 58 indices of a period hold 1..28 twice each and 0 and 29
\* once each.
Period == 2 * LastFrameIndex

PingPong(n) ==
    LET m == (n - 1) % Period
    IN IF m <= LastFrameIndex THEN m ELSE Period - m

C10_PingPongSequence ==
    \A i \in 1..Len(renderers) :
        LET r == renderers[i]
        IN /\ \A n \in 1..Len(r.shown) : r.shown[n] = PingPong(n)
           /\ (r.isRendering /\ Len(r.shown) = Period) =>
                  (r.currentFrameIndex = 0 /\ r.direction = 1)
           /\ Len(r.shown) >= Period =>
                  \A k \in 0..LastFrameIndex :
                      Cardinality({n \in 1..Period : r.shown[n] = k}) =
                          IF k \in {0, LastFrameIndex} THEN 1 ELSE 2

C10_Witness ==
    \E i \in 1..Len(renderers) :
        /\ Len(renderers[i].shown) >= Period + 1
        /\ renderers[i].shown[Period] = 1
        /\ renderers[i].shown[Period + 1] = 0

\* C11: every renderer has currentFrameIndex in 0..29 and direction +1 or
\* -1; a tick that advances the index to 29 leaves direction -1, one that
\* advances it to 0 leaves direction +1, and a tick that advances it to any
\* other index leaves direction as it was.
RendererInRange(r) ==
    /\ r.currentFrameIndex \in 0..LastFrameIndex
    /\ r.direction \in {1, 0 - 1}

Ticked(i) == Len(renderers'[i].shown) = Len(renderers[i].shown) + 1

C11_DirectionFlipsAtEnds ==
    [][/\ \A i \in 1..Len(renderers) : RendererInRange(renderers[i])
       /\ \A i \in 1..Len(renderers') : RendererInRange(renderers'[i])
       /\ \A i \in 1..Len(renderers) :
              Ticked(i) =>
                  LET advanced == renderers[i].currentFrameIndex
                                      + renderers[i].direction
                  IN /\ renderers'[i].currentFrameIndex = advanced
                     /\ advanced = LastFrameIndex =>
                            renderers'[i].direction = 0 - 1
                     /\ advanced = 0 => renderers'[i].direction = 1
                     /\ advanced \notin {0, LastFrameIndex} =>
                            renderers'[i].direction = renderers[i].direction]_vars

C11_Witness ==
    \E i \in 1..Len(renderers) :
        /\ Len(renderers[i].shown) = Period
        /\ renderers[i].shown[LastFrameIndex + 2] = LastFrameIndex - 1
        /\ renderers[i].currentFrameIndex = 0
        /\ renderers[i].direction = 1

\* C12: whatever initialize, showCanvas, hideAllCanvases and cleanup calls
\* were made, currentlyVisibleIndex is -1 or in 0..29, at most one canvas has
\* display 'block', and a canvas is displayed exactly when its index is
\* currentlyVisibleIndex.
Displayed == {i \in DOMAIN canvases : canvases[i].display = "block"}

C12_VisibleIndexTracksDisplay ==
    /\ currentlyVisibleIndex \in {0 - 1} \cup 0..(CanvasCount - 1)
    /\ Cardinality(Displayed) <= 1
    /\ \A i \in DOMAIN canvases : i \in Displayed <=> i = currentlyVisibleIndex
    /\ currentlyVisibleIndex # 0 - 1 => currentlyVisibleIndex \in Displayed

C12_Witness ==
    /\ call.op = "showCanvas"
    /\ call.wasVisible = 0
    /\ currentlyVisibleIndex = CanvasCount - 1
    /\ Displayed = {CanvasCount - 1}

\* C13: after initialize(w, h), in whatever state it was called, the bank
\* holds exactly 30 canvases, all w x h, blank and hidden, with
\* currentlyVisibleIndex = -1 and isInitialized = true, and they are the only
\* canvases attached to the page; never more than 30 are attached.
C13_InitializeGivesFreshBank ==
    /\ attached <= CanvasCount
    /\ call.op = "initialize" =>
           /\ DOMAIN canvases = 0..(CanvasCount - 1)
           /\ \A i \in DOMAIN canvases :
                  canvases[i] = NewCanvas(call.width, call.height)
           /\ width = call.width /\ height = call.height
           /\ currentlyVisibleIndex = 0 - 1
           /\ isInitialized
           /\ attached = CanvasCount

C13_Witness ==
    /\ call.op = "initialize"
    /\ call.wasInitialized
    /\ call.wasVisible = 1
    /\ call.height = 1
    /\ attached = CanvasCount

\* C14: a writeFrameRow(k, frame, sourceRow, targetRow) that returns true
\* changes row targetRow of canvas k and nothing else: the other rows of
\* canvas k, every other canvas, the visibility of every canvas,
\* currentlyVisibleIndex and isInitialized are as before.
WriteReturned(ret) == call'.op = "writeFrameRow" /\ call'.ret = ret

C14_WriteChangesOneRow ==
    [][WriteReturned(TRUE) =>
          /\ DOMAIN canvases' = DOMAIN canvases
          /\ \A i \in DOMAIN canvases :
                 /\ canvases'[i].display = canvases[i].display
                 /\ canvases'[i].width = canvases[i].width
                 /\ canvases'[i].height = canvases[i].height
                 /\ canvases'[i].parentNode = canvases[i].parentNode
                 /\ DOMAIN canvases'[i].rows = DOMAIN canvases[i].rows
                 /\ \A r \in DOMAIN canvases[i].rows :
                        (i # call'.index \/ r # call'.targetRow) =>
                            canvases'[i].rows[r] = canvases[i].rows[r]
          /\ canvases'[call'.index].rows[call'.targetRow] =
                 [frame |-> 0, row |-> call'.sourceRow,
                  writes |-> canvases[call'.index].rows[call'.targetRow].writes + 1]
          /\ UNCHANGED <<width, height, isInitialized, currentlyVisibleIndex,
                         attached>>]_vars

C14_Witness ==
    /\ call.op = "writeFrameRow" /\ call.ret = TRUE
    /\ call.index = 0 /\ call.targetRow = 1 /\ call.sourceRow = 0
    /\ canvases[0].rows[0] = [frame |-> 0, row |-> 1, writes |-> 1]
    /\ currentlyVisibleIndex = 0

C16_ShowMakesSoleVisible ==
    [][(call'.op = "showCanvas" /\ isInitialized
        /\ call'.index \in 0..(CanvasCount - 1)) =>
          LET k == call'.index
              again == ShowCanvas(CmState', k)
          IN /\ call'.ret = TRUE
             /\ Displayed' = {k}
             /\ currentlyVisibleIndex' = k
             /\ currentlyVisibleIndex = k =>
                    (call'.toggles = 0 /\ UNCHANGED cmVars)
             /\ again.ok /\ again.toggles = 0 /\ again.cm = CmState']_vars

C16_Witness ==
    /\ call.op = "showCanvas" /\ call.ret = TRUE
    /\ call.index = 1 /\ call.wasVisible = 1
    /\ call.toggles = 0
    /\ Displayed = {1}

\* C17: showCanvas(k) with k < 0 or k >= 30 returns false and leaves
\* currentlyVisibleIndex and the visibility of every canvas as they were.
C17_ShowRejectsBadIndex ==
    [][(call'.op = "showCanvas"
        /\ call'.index \notin 0..(CanvasCount - 1)) =>
          /\ call'.ret = FALSE
          /\ call'.toggles = 0
          /\ UNCHANGED cmVars]_vars

C17_Witness ==
    /\ call.op = "showCanvas" /\ call.ret = FALSE
    /\ call.index = CanvasCount
    /\ call.wasInitialized
    /\ currentlyVisibleIndex = CanvasCount - 1
    /\ Displayed = {CanvasCount - 1}

\* C18: hideAllCanvases leaves no canvas visible and currentlyVisibleIndex
\* = -1 from any bank state, and a second call right after the first changes
\* nothing.
C18_HideAllIdempotent ==
    [][call'.op = "hideAllCanvases" =>
          LET once == HideAllCanvases(CmState)
          IN /\ Displayed' = {}
             /\ currentlyVisibleIndex' = 0 - 1
             /\ CmState' = once
             /\ HideAllCanvases(once) = once
             /\ call.op = "hideAllCanvases" => UNCHANGED cmVars]_vars

C18_Witness ==
    /\ call.op = "hideAllCanvases"
    /\ call.prev = "hideAllCanvases"
    /\ call.wasInitialized
    /\ Displayed = {}
    /\ currentlyVisibleIndex = 0 - 1

\* C19: cleanup leaves the bank uninitialized, without canvases and with
\* currentlyVisibleIndex = -1; a second cleanup right after changes nothing;
\* showCanvas(0) after cleanup returns false and leaves
\* currentlyVisibleIndex = -1.
C19_CleanupResetsBank ==
    [][/\ call'.op = "cleanup" =>
              /\ ~isInitialized'
              /\ canvases' = <<>>
              /\ currentlyVisibleIndex' = 0 - 1
              /\ attached' = 0
              /\ call.op = "cleanup" => UNCHANGED cmVars
       /\ (call.op = "cleanup" /\ call'.op = "showCanvas"
           /\ call'.index = 0) =>
              /\ call'.ret = FALSE
              /\ currentlyVisibleIndex' = 0 - 1
              /\ UNCHANGED cmVars]_vars

C19_Witness ==
    /\ call.op = "showCanvas" /\ call.index = 0
    /\ call.prev = "cleanup"
    /\ call.ret = FALSE
    /\ currentlyVisibleIndex = 0 - 1
    /\ ~isInitialized

\* C20 as stated: startRendering on a running renderer changes nothing, and
\* startRendering while the bank is not initialized changes nothing and
\* leaves isRendering = false.
C20_StartIsNoOpOrRefused ==
    [][\A i \in 1..Len(renderers) :
          StartRenderingCall(i) =>
              /\ renderers[i].isRendering =>
                     (renderers' = renderers /\ UNCHANGED cmVars)
              /\ ~isInitialized =>
                     /\ renderers' = renderers /\ UNCHANGED cmVars
                     /\ ~renderers'[i].isRendering]_vars

\* C20, amended: startRendering on a running renderer changes nothing (no
\* second timer, currentFrameIndex and direction as they were), whether the
\* bank is initialized or not; on a renderer that is not running, with the
\* bank not initialized, it changes nothing and isRendering stays false.
C20_StartIsNoOpOrRefusedWhenStopped ==
    [][\A i \in 1..Len(renderers) :
          StartRenderingCall(i) =>
              /\ renderers[i].timers \in {0, 1}
              /\ renderers'[i].timers \in {0, 1}
              /\ renderers[i].isRendering =>
                     (renderers' = renderers /\ UNCHANGED cmVars)
              /\ (~isInitialized /\ ~renderers[i].isRendering) =>
                     /\ renderers' = renderers /\ UNCHANGED cmVars
                     /\ ~renderers'[i].isRendering]_vars

C20_Witness ==
    /\ call.op = "startRendering"
    /\ call.prev = "none"
    /\ renderers[call.index].isRendering
    /\ renderers[call.index].currentFrameIndex = LastFrameIndex - 1
    /\ renderers[call.index].direction = 0 - 1
    /\ renderers[call.index].timers = 1

\* C21: a stopRendering call leaves isRendering false and no timer of that
\* renderer set; on a renderer that is not running it changes nothing; and
\* while a renderer is not running nothing is passed to showCanvas by it:
\* its record of shown canvases changes only by the startRendering call
\* that starts it again.
C21_StopSilencesRenderer ==
    [][\A i \in 1..Len(renderers) :
          /\ StopRenderingCall(i) =>
                 /\ ~renderers'[i].isRendering
                 /\ renderers'[i].timers = 0
                 /\ ~renderers[i].isRendering => renderers' = renderers
          /\ (~renderers[i].isRendering
                  /\ renderers'[i].shown # renderers[i].shown) =>
                 (StartRenderingCall(i) /\ renderers'[i].isRendering)]_vars

C21_Witness ==
    /\ Len(renderers) = 1
    /\ call.op = "stopRendering"
    /\ ~renderers[1].isRendering
    /\ renderers[1].timers = 0
    /\ Len(renderers[1].shown) >= 2
    /\ isInitialized

\* what every setFrameRate call does whatever the state of the bank: a rate
\* outside 1..60 changes nothing, a rate inside is stored with its interval
\* and a renderer that is not running stays so, without a timer
RateStoredOrRefused(i, fps) ==
    /\ (fps < 1 \/ fps > 60) => renderers'[i] = renderers[i]
    /\ (1 <= fps /\ fps <= 60) =>
           /\ renderers'[i].frameRate = fps
           /\ renderers'[i].frameInterval.num * fps
                  = 1000 * renderers'[i].frameInterval.den
           /\ ~renderers[i].isRendering =>
                  (~renderers'[i].isRendering /\ renderers'[i].timers = 0)

\* running afterwards, with exactly one timer, set with 1000 / fps
RunsAtRate(r, fps) ==
    /\ r.isRendering
    /\ r.timers = 1
    /\ r.period.num * fps = 1000 * r.period.den

Pixels == [k \in DOMAIN canvases |-> canvases[k].rows]
Visibility == [k \in DOMAIN canvases |-> canvases[k].display]

\* C23: a tick of a renderer's timer changes no canvas content and none of
\* currentTargetRow, isComplete, isProcessing; a processFrame call changes
\* neither currentlyVisibleIndex nor the visibility of any canvas nor any
\* renderer's currentFrameIndex or direction.
C23_TickAndFrameDoNotInterfere ==
    [][/\ (\E i \in 1..Len(renderers) : Tick(i, FewTicks)) =>
              /\ Pixels' = Pixels
              /\ UNCHANGED <<currentTargetRow, isComplete, isProcessing>>
       /\ ProcessFrameStep =>
              /\ currentlyVisibleIndex' = currentlyVisibleIndex
              /\ Visibility' = Visibility
              /\ Len(renderers') = Len(renderers)
              /\ \A i \in 1..Len(renderers) :
                     /\ renderers'[i].currentFrameIndex
                            = renderers[i].currentFrameIndex
                     /\ renderers'[i].direction = renderers[i].direction]_vars

\* a shown canvas that holds a row of a frame while the fill is going on
C23_Witness ==
    /\ isInitialized
    /\ animationRenderer # 0
    /\ renderers[animationRenderer].shown # <<>>
    /\ currentlyVisibleIndex = 0
    /\ height = MaxHeight
    /\ currentTargetRow = 1
    /\ frame.exit = "processed"
    /\ canvases[currentlyVisibleIndex].rows[0].writes = 1

\* C24: when the draw into some canvases fails while a frame is processed,
\* every other canvas still gets its row of that frame at the target row
\* (if the bank has that row), the failing ones keep what they had,
\* currentTargetRow advances by one
\* (to 0, with isComplete, from the last row), the frame is closed exactly
\* once, and a later frame without failure is written to all 30 canvases.
C24_FailedWriteIsSkipped ==
    [][\A drawThrows \in FailSets :
          (ProcessFrame(drawThrows, FALSE) /\ Writes(frame'.exit)) =>
              /\ \A k \in 0..(SliceCount - 1) :
                     IF k \in drawThrows \/ currentTargetRow >= height
                     THEN canvases'[k] = canvases[k]
                     ELSE /\ canvases'[k].rows[currentTargetRow].frame = frame'.no
                          /\ canvases'[k].rows[currentTargetRow].row
                                 = SourceRows(frame'.displayHeight)[k]
              /\ currentTargetRow' =
                     IF currentTargetRow + 1 < frame'.displayHeight
                     THEN currentTargetRow + 1 ELSE 0
              /\ isComplete' = (currentTargetRow + 1 >= frame'.displayHeight)
              /\ frame'.closes = 1
              /\ failedFrames' =
                     IF drawThrows = {} THEN failedFrames
                     ELSE failedFrames + 1]_vars

\* the frame after a frame whose draw into canvas 0 failed: canvas 0 lacks
\* row 0 and has row 1, the other canvases have both
C24_Witness ==
    /\ isInitialized /\ height = MaxHeight
    /\ failedFrames = 1
    /\ frame.no = 1 /\ frame.exit \in {"processed", "completed"}
    /\ frame.closes = 1
    /\ canvases[0].rows[0].writes = 0
    /\ canvases[0].rows[1].frame = 1
    /\ canvases[1].rows[0].frame = 0
    /\ canvases[SliceCount - 1].rows[1].frame = 1

\* C25: in the application as the entry module wires it, the processFrame
\* call that sets isComplete leaves the camera stopped (isStreaming false),
\* and while isComplete holds no frame is handed to processFrame.
C25_CompleteStopsCamera ==
    [][ProcessFrameStep => (~isComplete /\ (isComplete' => ~isStreaming'))]_vars

\* the camera and the renderers, and what a stop() call and a
\* stopRendering() call on renderer i make of them
World == [cam |-> CamState, renderers |-> renderers, cm |-> CmState]
AfterStop(w) == [w EXCEPT !.cam = CameraStop(@)]
AfterStopRendering(w, i) == [w EXCEPT !.renderers[i] = StopRendering(@)]

\* C26: stop() and stopRendering() are each idempotent and they commute:
\* applied in either order, any number of times, they give the one state
\* with isStreaming false, reader and stream released, isRendering false
\* and no timer; and the calls change exactly that.
C26_StopsIdempotentAndCommute ==
    [][/\ AfterStop(AfterStop(World)) = AfterStop(World)
       /\ \A i \in 1..Len(renderers) :
              LET both == AfterStopRendering(AfterStop(World), i)
              IN /\ AfterStopRendering(AfterStopRendering(World, i), i)
                        = AfterStopRendering(World, i)
                 /\ AfterStop(AfterStopRendering(World, i)) = both
                 /\ AfterStop(both) = both
                 /\ AfterStopRendering(both, i) = both
                 /\ ~both.cam.isStreaming
                 /\ ~both.cam.reader /\ ~both.cam.stream
                 /\ both.cam.generator # "reading"
                 /\ ~both.renderers[i].isRendering
                 /\ ~both.renderers[i].renderingInterval
                 /\ both.renderers[i].timers = 0
                 /\ StopRenderingCall(i) => World' = AfterStopRendering(World, i)
       /\ CameraStopCall => World' = AfterStop(World)]_vars

\* a streaming camera and a running renderer, stopped one after the other
C26_Witness ==
    /\ call.op = "stopRendering" /\ call.prev = "stop"
    /\ frame.no >= 0
    /\ ~isComplete
    /\ ~isStreaming /\ ~reader /\ ~stream /\ generator = "done"
    /\ Len(renderers) = 1
    /\ ~renderers[1].isRendering /\ renderers[1].timers = 0
    /\ renderers[1].shown # <<>>

\* C27: for every frame height H >= 1 and every k in 0..29 the source row
\* computed for slice k lies in 0..H-1 and is not above the one computed
\* for slice k + 1; for H = 480 the rows of slices 0, 15 and 29 are 0, 240
\* and 464.
C27_SourceRowInRangeAndMonotone ==
    call.op = "sourceRow" =>
        /\ 0 <= call.sourceRow
        /\ call.sourceRow < call.displayHeight
        /\ call.index + 1 < SliceCount =>
               call.sourceRow <= SourceRow(call.index + 1, call.displayHeight)
        /\ call.displayHeight = 480 =>
               /\ call.index = 0 => call.sourceRow = 0
               /\ call.index = 15 => call.sourceRow = 240
               /\ call.index = 29 => call.sourceRow = 464

C27_Witness ==
    /\ call.op = "sourceRow"
    /\ call.displayHeight = 480
    /\ call.index = 29
    /\ call.sourceRow = 464

\* C28: no method of the renderer or of the bank called from outside
\* (startRendering, stopRendering, setFrameRate, renderSpecificFrame,
\* onResize, initialize, cleanup) raises an exception to its caller.
C28_NoCallRaises == ~call.raised

\* C29: once setDimensions has initialized the bank, with frames of one
\* height arriving and neither a second setDimensions nor a cleanup, the
\* processor eventually has isComplete = true, if a frame that can be
\* delivered is eventually delivered.
C29_FillEventuallyCompletes == isInitialized ~> isComplete

C29_Witness ==
    /\ isInitialized /\ isComplete
    /\ videoHeight = MaxHeight + 1
    /\ fed = videoHeight
    /\ failedFrames > 0

\* C30: after stop() the frame stream yields no further frame and the loop
\* that consumes it ends: a stop() made while the generator awaits its read
\* leaves no generator reading, a stop() made by processFrame while the
\* generator is suspended at its yield lets the resumed generator return,
\* and a frame is handed to processFrame only while isStreaming is true.
C30_StopEndsFrameStream ==
    [][/\ ~isStreaming => generator \in {"none", "done"}
       /\ CameraStopCall => (~isStreaming' /\ generator' \in {"none", "done"})
       /\ ProcessFrameStep =>
              /\ isStreaming
              /\ fed' = fed + 1
              /\ ~isStreaming' => generator' = "done"
       /\ (fed' # fed /\ ~ProcessFrameStep) => (fed' = 0 /\ isStreaming')]_vars

\* a fill stopped from outside after its first frame, between two frames
C30_Witness ==
    /\ call.op = "stop" /\ call.prev = "none"
    /\ fed = 1 /\ frame.exit = "processed"
    /\ ~isComplete
    /\ ~isStreaming
    /\ generator = "done"

\* C31: every frame read is yielded or closed, and of the 30 consecutive
\* frames that start with any frame read fewer than 30 are yielded.
C31_ThrottleDropsFrames ==
    call.op = "read" =>
        /\ call.ret \in {"yielded", "closed"}
        /\ Cardinality({n \in call.index..(call.index + AssumedInputFPS - 1) :
                            Yields(n)}) < AssumedInputFPS

C33_UninitializedBankIsNoOp ==
    [][~isInitialized =>
          /\ ProcessFrameStep =>
                 /\ frame'.closes = 1
                 /\ frame'.exit \in {"uninitialized", "complete"}
                 /\ UNCHANGED <<cmVars, currentTargetRow, isComplete>>
          /\ \A i \in 1..Len(renderers) :
                 Tick(i, FewTicks) => UNCHANGED <<cmVars, renderers>>]_vars

\* a frame was closed over the cleaned bank while a renderer's timer runs
C33_Witness ==
    /\ ~isInitialized /\ frame.exit = "uninitialized" /\ frame.closes = 1
    /\ frameProcessingCount > 0 /\ currentTargetRow = 0
    /\ \E i \in 1..Len(renderers) : renderers[i].timers > 0

\* the renderers whose interval timer is set and calls showCanvas on the bank
Ticking == {i \in 1..Len(renderers) : renderers[i].timers > 0}

\* C34: at every moment at most one renderer timer is active over the bank;
\* a second setDimensions does not leave the timer of the previous renderer
\* running.
C34_AtMostOneTimer ==
    /\ Cardinality(Ticking) <= 1
    /\ \A i \in 1..Len(renderers) : renderers[i].timers <= 1

CountFollowsRow ==
    IF isComplete THEN frameProcessingCount = videoHeight
    ELSE frameProcessingCount = currentTargetRow

\* C36: when the bank is initialized before the first frame and all frames
\* have the same height H, between processFrame calls frameProcessingCount
\* equals currentTargetRow until completion and H after it; a frame that
\* arrives after completion changes neither counter.
C36_CountFollowsRow ==
    [][/\ (freshAtInit' /\ isInitialized') => CountFollowsRow'
       /\ (ProcessFrameStep /\ isComplete) =>
              UNCHANGED <<frameProcessingCount, currentTargetRow>>]_vars

\* a frame arrived after the last row of the tallest frame was written
C36_Witness ==
    /\ freshAtInit /\ isInitialized /\ isComplete
    /\ videoHeight = MaxHeight /\ frameProcessingCount = MaxHeight
    /\ frame.exit = "complete" /\ fed = MaxHeight + 1

\* the processor and the bank hold the values they have after construction
CoreAsConstructed ==
    /\ currentTargetRow = 0 /\ ~isComplete /\ ~isProcessing
    /\ frameProcessingCount = 0 /\ animationRenderer = 0
    /\ ~isInitialized /\ canvases = <<>> /\ currentlyVisibleIndex = 0 - 1
    /\ attached = 0

\* a bank initialized on a cleaned processor has been fed H frames of
\* height H: the fill is complete and every row of every canvas is written
RefilledAfterCleanup ==
    (freshAtInit /\ isInitialized /\ fed >= videoHeight
     /\ Len(renderers) = MaxRenderers /\ renderers[1].timers = 0) =>
        /\ isComplete
        /\ \A k \in 0..(CanvasCount - 1) : \A r \in 0..(height - 1) :
               canvases[k].rows[r].writes = 1

\* C37: FrameProcessor.cleanup() returns the core to its initial state from
\* any reachable state (row 0, not complete, not processing, count 0, no
\* renderer timer running, bank uninitialized with nothing visible), and a
\* setDimensions after it followed by H frames of height H completes the
\* fill again with every row of every canvas written.
C37_CleanupRestoresInitial ==
    [][/\ Cleanup => (CoreAsConstructed' /\ Ticking' = {})
       /\ RefilledAfterCleanup']_vars

\* The same for the renderer the processor holds: cleanup stops that one;
\* a renderer replaced by an earlier setDimensions is out of its reach.
CleanupStopsHeldRenderer ==
    [][/\ Cleanup =>
              /\ CoreAsConstructed'
              /\ animationRenderer # 0 =>
                     /\ renderers'[animationRenderer].timers = 0
                     /\ ~renderers'[animationRenderer].isRendering
       /\ RefilledAfterCleanup']_vars

\* the bank refilled after a cleanup
RefilledWitness ==
    /\ freshAtInit /\ isInitialized /\ fed >= videoHeight
    /\ Len(renderers) = MaxRenderers /\ renderers[1].timers = 0
    /\ isComplete

C39_ToggleSwitchesFacingMode ==
    call.op \in {"toggleCamera", "toggleCameraFixedSize"} =>
        /\ call.requested = Opposite(call.was)
        /\ call.ret = "granted" =>
               /\ currentFacingMode # call.was
               /\ call.twoBack # "none" => currentFacingMode = call.twoBack

\* The same for the toggleCamera of modules/camera.js alone, which does not
\* recalculate the resolution.
FixedSizeToggleSwitchesFacingMode ==
    call.op = "toggleCameraFixedSize" =>
        /\ call.requested = Opposite(call.was)
        /\ call.ret = "granted" =>
               /\ currentFacingMode # call.was
               /\ call.twoBack # "none" => currentFacingMode = call.twoBack

====
